---------------------------- MODULE Spec2Model ----------------------------
(***************************************************************************)
(* Model of src/sudoku.py: the Sudoku engine (SudokuGenerator,             *)
(* find_conflicts) and the game state (SudokuGame).                        *)
(*                                                                         *)
(* Boards and note dictionaries are Python objects that the code shares    *)
(* by reference and mutates in place, so they live on two heaps (boards,   *)
(* noteobjs) and the fields that hold them are references (indices).       *)
(* deep_copy_board and the dict comprehension of push_state allocate new   *)
(* objects; everything else passes references around.                      *)
(*                                                                         *)
(* random.shuffle and random.randint are the program's inputs.  A run of   *)
(* generate draws the shuffles of its outermost calls from ShuffleOrders   *)
(* and its coordinates from one of DigStreams.                             *)
(***************************************************************************)
EXTENDS Integers, Sequences, FiniteSets, TLC

VARIABLES
    game,   \* the SudokuGame object and the objects its fields refer to:
            \*   boards    heap of board objects, each a list of rows
            \*   noteobjs  heap of notes dicts, each a function coord -> set
            \*   puzzle, solution   references into boards
            \*   notes              reference into noteobjs
            \*   difficulty, hints_left, max_mistakes, mistakes
            \*   history, future    sequences of snapshot tuples
    given,  \* fixed_cells as it was when the game was created
    last,   \* the most recent call on the game
    gen,    \* a call of SudokuGenerator.generate in progress
    probe   \* a board handed to find_conflicts and _is_valid, and the answers

vars == <<game, given, last, gen, probe>>

-----------------------------------------------------------------------------
(* self.box of SudokuGenerator; the literal 3 elsewhere in the program *)

Box == 3

-----------------------------------------------------------------------------
(* Bounds *)

\* Calls of push_state, undo and redo stop when the two stacks together
\* would hold more snapshots than this.
MaxHistory == 2

\* Calls of _solve at recursion depth below FreeDepth draw their shuffle
\* from ShuffleOrders; deeper calls get the ascending order.
FreeDepth == 2

-----------------------------------------------------------------------------
(* Board representation *)

Size == Box * Box

Idx == 0 .. (Size - 1)

Coords == Idx \X Idx

Digits == 1 .. Size

None == -1

Range(s) == {s[i] : i \in 1 .. Len(s)}

\* A board is a list of rows, each a list of cells; Python counts both from
\* 0 and sequences count from 1.
Rows == 1 .. Size

\* board[r][c]
Cell(board, coord) == board[coord[1] + 1][coord[2] + 1]

\* The board with cells f(<<r, c>>)
MakeBoard(f(_)) == [i \in Rows |-> [j \in Rows |-> f(<<i - 1, j - 1>>)]]

\* [[0] * 9 for _ in range(9)]
EmptyBoard == [i \in Rows |-> [j \in Rows |-> 0]]

\* [row[:] for row in board]: a new object holding the same cells
deep_copy_board(board) == [i \in Rows |-> [j \in Rows |-> board[i][j]]]

DIFFICULTIES ==
    [easy   |-> [holes |-> 36, hints |-> 4, max_mistakes |-> 5],
     medium |-> [holes |-> 45, hints |-> 3, max_mistakes |-> 4],
     hard   |-> [holes |-> 52, hints |-> 2, max_mistakes |-> 3],
     expert |-> [holes |-> 58, hints |-> 1, max_mistakes |-> 3]]

\* DIFFICULTIES.get(difficulty, DIFFICULTIES["medium"])
Config(d) == IF d \in DOMAIN DIFFICULTIES THEN DIFFICULTIES[d]
             ELSE DIFFICULTIES["medium"]

-----------------------------------------------------------------------------
(* SudokuGenerator *)

\* _find_empty returns None when no cell is 0; NoCoord stands for it here.
NoCoord == <<>>

\* The first cell holding 0 in the order of the two nested loops, rows
\* first.
_find_empty(board) ==
    IF \A coord \in Coords : Cell(board, coord) # 0 THEN NoCoord
    ELSE CHOOSE coord \in Coords :
             /\ Cell(board, coord) = 0
             /\ \A other \in Coords :
                    Cell(board, other) = 0 =>
                        Size * coord[1] + coord[2] <= Size * other[1] + other[2]

_is_valid_no_box(board, row, col, num) ==
    /\ \A c \in Idx : Cell(board, <<row, c>>) # num
    /\ \A r \in Idx : Cell(board, <<r, col>>) # num

_is_valid_no_col(board, row, col, num) ==
    LET start_r == (row \div Box) * Box
        start_c == (col \div Box) * Box
    IN  /\ \A c \in Idx : Cell(board, <<row, c>>) # num
        /\ \A r \in start_r .. (start_r + Box - 1) :
               \A c \in start_c .. (start_c + Box - 1) :
                   Cell(board, <<r, c>>) # num

_is_valid(board, row, col, num) ==
    LET start_r == (row \div Box) * Box
        start_c == (col \div Box) * Box
    IN  /\ \A c \in Idx : Cell(board, <<row, c>>) # num
        /\ \A r \in Idx : Cell(board, <<r, col>>) # num
        /\ \A r \in start_r .. (start_r + Box - 1) :
               \A c \in start_c .. (start_c + Box - 1) :
                   Cell(board, <<r, c>>) # num

\* board[r][c] = value
SetCell(board, coord, value) ==
    [board EXCEPT ![coord[1] + 1][coord[2] + 1] = value]

\* Board = List[List[int]]
Boards == [Rows -> [Rows -> 0 .. Size]]

\* for num in range(1, 10): if self._is_valid(...): the first num from num
\* on that _is_valid accepts at coord, Size + 1 when the loop runs out.
FirstValid(board, coord, num) ==
    CHOOSE n \in num .. (Size + 1) :
        /\ n > Size \/ _is_valid(board, coord[1], coord[2], n)
        /\ \A w \in num .. (n - 1) : ~_is_valid(board, coord[1], coord[2], w)

\* What a call of _count_solutions leaves: the count it returns and the
\* cells of its board argument when it returns.
Returns == [count : Nat, board : Boards]

\* _count_solutions without board[r][c] = 0 after the recursive call
_count_solutions_no_reset(board, limit) ==
    LET CountFrom[b \in Boards, coord \in Coords \cup {NoCoord},
                  num \in 1 .. (Size + 1), count \in Nat] ==
            IF coord = NoCoord THEN [count |-> 1, board |-> b]
            ELSE IF FirstValid(b, coord, num) > Size
            THEN [count |-> count, board |-> b]
            ELSE [placed \in Boards |->
                     [rec \in Returns |->
                         IF count + rec.count >= limit
                         THEN [count |-> count + rec.count, board |-> rec.board]
                         ELSE CountFrom[rec.board, coord,
                                        Cell(placed, coord) + 1,
                                        count + rec.count]
                     ][CountFrom[placed, _find_empty(placed), 1, 0]]
                 ][SetCell(b, coord, FirstValid(b, coord, num))]
    IN  CountFrom[board, _find_empty(board), 1, 0]

\* _count_solutions with its effect on the board argument.  CountFrom is the
\* call on board b whose first empty cell is coord, in its for loop from num
\* on with the count so far; placed is the board after board[r][c] = num,
\* rec what the recursive call leaves, and board[r][c] = 0 comes before the
\* test of the limit.
_count_solutions_run(board, limit) ==
    LET CountFrom[b \in Boards, coord \in Coords \cup {NoCoord},
                  num \in 1 .. (Size + 1), count \in Nat] ==
            IF coord = NoCoord THEN [count |-> 1, board |-> b]
            ELSE IF FirstValid(b, coord, num) > Size
            THEN [count |-> count, board |-> b]
            ELSE [placed \in Boards |->
                     [rec \in Returns |->
                         IF count + rec.count >= limit
                         THEN [count |-> count + rec.count,
                               board |-> SetCell(rec.board, coord, 0)]
                         ELSE CountFrom[SetCell(rec.board, coord, 0), coord,
                                        Cell(placed, coord) + 1,
                                        count + rec.count]
                     ][CountFrom[placed, _find_empty(placed), 1, 0]]
                 ][SetCell(b, coord, FirstValid(b, coord, num))]
    IN  CountFrom[board, _find_empty(board), 1, 0]

\* The value the call returns
_count_solutions(board, limit) == _count_solutions_run(board, limit).count

-----------------------------------------------------------------------------
(* SudokuGame: the methods as functions of the object graph g, a record    *)
(* of the fields the methods read or write.                                *)

\* dict.pop(coord, None)
DictPop(d, coord) == [k \in (DOMAIN d) \ {coord} |-> d[k]]

\* d[coord] = s
DictPut(d, coord, s) ==
    [k \in (DOMAIN d) \cup {coord} |-> IF k = coord THEN s ELSE d[k]]

\* {k: set(v) for k, v in self.notes.items()}: a new dict with new sets
CopyNotes(d) == [k \in DOMAIN d |-> {x \in d[k] : TRUE}]

fixed_cells_correct(g) ==
    {coord \in Coords :
        /\ Cell(g.boards[g.puzzle], coord) # 0
        /\ Cell(g.boards[g.puzzle], coord) = Cell(g.boards[g.solution], coord)}

fixed_cells_inverted(g) ==
    {coord \in Coords : Cell(g.boards[g.puzzle], coord) = 0}

fixed_cells(g) == {coord \in Coords : Cell(g.boards[g.puzzle], coord) # 0}

\* (deep_copy_board(self.puzzle), {k: set(v) ...}, self.mistakes,
\*  self.hints_left): the two copies are new heap objects
SnapshotHeap(g) ==
    [g EXCEPT !.boards = Append(@, deep_copy_board(g.boards[g.puzzle])),
              !.noteobjs = Append(@, CopyNotes(g.noteobjs[g.notes]))]

SnapshotTuple(g) ==
    <<Len(g.boards) + 1, Len(g.noteobjs) + 1, g.mistakes, g.hints_left>>

push_state_alias(g) ==
    [g EXCEPT !.history = Append(@, <<g.puzzle, g.notes, g.mistakes,
                                      g.hints_left>>),
              !.future = <<>>]

push_state_share_notes(g) ==
    [g EXCEPT !.boards = Append(@, deep_copy_board(g.boards[g.puzzle])),
              !.history = Append(@, <<Len(g.boards) + 1, g.notes, g.mistakes,
                                      g.hints_left>>),
              !.future = <<>>]

push_state_keep_future(g) ==
    [SnapshotHeap(g) EXCEPT !.history = Append(@, SnapshotTuple(g))]

push_state(g) ==
    [SnapshotHeap(g) EXCEPT !.history = Append(@, SnapshotTuple(g)),
                            !.future = <<>>]

Restore(g, snapshot) ==
    [g EXCEPT !.puzzle = snapshot[1], !.notes = snapshot[2],
              !.mistakes = snapshot[3], !.hints_left = snapshot[4]]

undo_unguarded(g) ==
    LET g2 == [SnapshotHeap(g) EXCEPT !.future = Append(@, SnapshotTuple(g))]
    IN  IF g.history = <<>> THEN g2
        ELSE Restore([g2 EXCEPT !.history = SubSeq(@, 1, Len(@) - 1)],
                     g.history[Len(g.history)])

undo(g) ==
    IF g.history = <<>> THEN g
    ELSE LET snapshot == g.history[Len(g.history)]
             g1 == [g EXCEPT !.history = SubSeq(@, 1, Len(@) - 1)]
             g2 == [SnapshotHeap(g1) EXCEPT
                        !.future = Append(@, SnapshotTuple(g1))]
         IN  Restore(g2, snapshot)

redo_drop_history(g) ==
    IF g.future = <<>> THEN g
    ELSE LET snapshot == g.future[Len(g.future)]
             g1 == [g EXCEPT !.future = SubSeq(@, 1, Len(@) - 1)]
         IN  Restore(g1, snapshot)

redo(g) ==
    IF g.future = <<>> THEN g
    ELSE LET snapshot == g.future[Len(g.future)]
             g1 == [g EXCEPT !.future = SubSeq(@, 1, Len(@) - 1)]
             g2 == [SnapshotHeap(g1) EXCEPT
                        !.history = Append(@, SnapshotTuple(g1))]
         IN  Restore(g2, snapshot)

set_value_unguarded(g, coord, value) ==
    LET g1 == push_state(g)
        g2 == [g1 EXCEPT !.boards[g1.puzzle][coord[1] + 1][coord[2] + 1] = value,
                         !.noteobjs[g1.notes] = DictPop(@, coord)]
    IN  IF value # 0 /\ value # Cell(g2.boards[g2.solution], coord)
        THEN [g2 EXCEPT !.mistakes = @ + 1]
        ELSE g2

set_value_keep_notes(g, coord, value) ==
    IF coord \in fixed_cells(g) THEN g
    ELSE LET g1 == push_state(g)
             g2 == [g1 EXCEPT !.boards[g1.puzzle][coord[1] + 1][coord[2] + 1] = value]
         IN  IF value # 0 /\ value # Cell(g2.boards[g2.solution], coord)
             THEN [g2 EXCEPT !.mistakes = @ + 1]
             ELSE g2

set_value_forgiving(g, coord, value) ==
    IF coord \in fixed_cells(g) THEN g
    ELSE LET g1 == push_state(g)
             g2 == [g1 EXCEPT !.boards[g1.puzzle][coord[1] + 1][coord[2] + 1] = value,
                              !.noteobjs[g1.notes] = DictPop(@, coord)]
         IN  IF value # 0 /\ value # Cell(g2.boards[g2.solution], coord)
             THEN [g2 EXCEPT !.mistakes = @ + 1]
             ELSE IF value # 0 /\ g2.mistakes > 0
             THEN [g2 EXCEPT !.mistakes = @ - 1]
             ELSE g2

set_value_no_snapshot(g, coord, value) ==
    IF coord \in fixed_cells(g) THEN g
    ELSE LET g2 == [g EXCEPT !.boards[g.puzzle][coord[1] + 1][coord[2] + 1] = value,
                             !.noteobjs[g.notes] = DictPop(@, coord)]
         IN  IF value # 0 /\ value # Cell(g2.boards[g2.solution], coord)
             THEN [g2 EXCEPT !.mistakes = @ + 1]
             ELSE g2

set_value_any_entry(g, coord, value) ==
    IF coord \in fixed_cells(g) THEN g
    ELSE LET g1 == push_state(g)
             g2 == [g1 EXCEPT !.boards[g1.puzzle][coord[1] + 1][coord[2] + 1] = value,
                              !.noteobjs[g1.notes] = DictPop(@, coord)]
         IN  IF value # 0 THEN [g2 EXCEPT !.mistakes = @ + 1] ELSE g2

set_value(g, coord, value) ==
    IF coord \in fixed_cells(g) THEN g
    ELSE LET g1 == push_state(g)
             g2 == [g1 EXCEPT !.boards[g1.puzzle][coord[1] + 1][coord[2] + 1] = value,
                              !.noteobjs[g1.notes] = DictPop(@, coord)]
         IN  IF value # 0 /\ value # Cell(g2.boards[g2.solution], coord)
             THEN [g2 EXCEPT !.mistakes = @ + 1]
             ELSE g2

toggle_note_keep_empty(g, coord, value) ==
    IF coord \in fixed_cells(g) THEN g
    ELSE LET g1 == push_state(g)
             d == g1.noteobjs[g1.notes]
             old == IF coord \in DOMAIN d THEN d[coord] ELSE {}
             note_set == IF value \in old THEN old \ {value}
                         ELSE old \cup {value}
         IN  [g1 EXCEPT !.noteobjs[g1.notes] = DictPut(d, coord, note_set)]

toggle_note(g, coord, value) ==
    IF coord \in fixed_cells(g) THEN g
    ELSE LET g1 == push_state(g)
             d == g1.noteobjs[g1.notes]
             \* self.notes.setdefault(coord, set())
             old == IF coord \in DOMAIN d THEN d[coord] ELSE {}
             note_set == IF value \in old THEN old \ {value}
                         ELSE old \cup {value}
             d2 == IF note_set = {} THEN DictPop(d, coord)
                   ELSE DictPut(d, coord, note_set)
         IN  [g1 EXCEPT !.noteobjs[g1.notes] = d2]

hint_unbudgeted(g, coord) ==
    IF coord \in fixed_cells(g)
    THEN [g |-> g, ret |-> None]
    ELSE LET g1 == push_state(g)
             g2 == [g1 EXCEPT
                        !.boards[g1.puzzle][coord[1] + 1][coord[2] + 1] =
                            Cell(g1.boards[g1.solution], coord),
                        !.noteobjs[g1.notes] = DictPop(@, coord),
                        !.hints_left = @ - 1]
         IN  [g |-> g2, ret |-> Cell(g2.boards[g2.puzzle], coord)]

hint_off_by_one(g, coord) ==
    IF g.hints_left < 0 \/ coord \in fixed_cells(g)
    THEN [g |-> g, ret |-> None]
    ELSE LET g1 == push_state(g)
             g2 == [g1 EXCEPT
                        !.boards[g1.puzzle][coord[1] + 1][coord[2] + 1] =
                            Cell(g1.boards[g1.solution], coord),
                        !.noteobjs[g1.notes] = DictPop(@, coord),
                        !.hints_left = @ - 1]
         IN  [g |-> g2, ret |-> Cell(g2.boards[g2.puzzle], coord)]

\* hint returns a value and changes the game: [g |-> ..., ret |-> ...]
hint(g, coord) ==
    IF g.hints_left <= 0 \/ coord \in fixed_cells(g)
    THEN [g |-> g, ret |-> None]
    ELSE LET g1 == push_state(g)
             g2 == [g1 EXCEPT
                        !.boards[g1.puzzle][coord[1] + 1][coord[2] + 1] =
                            Cell(g1.boards[g1.solution], coord),
                        !.noteobjs[g1.notes] = DictPop(@, coord),
                        !.hints_left = @ - 1]
         IN  [g |-> g2, ret |-> Cell(g2.boards[g2.puzzle], coord)]

-----------------------------------------------------------------------------
(* The heap: objects no field refers to any more are collected, and the    *)
(* live ones are renumbered in the order the fields name them, so that a   *)
(* state is the object graph and not a history of allocations.             *)

BoardRefs(g) ==
    <<g.solution, g.puzzle>>
        \o [i \in 1 .. Len(g.history) |-> g.history[i][1]]
        \o [i \in 1 .. Len(g.future) |-> g.future[i][1]]

NotesRefs(g) ==
    <<g.notes>>
        \o [i \in 1 .. Len(g.history) |-> g.history[i][2]]
        \o [i \in 1 .. Len(g.future) |-> g.future[i][2]]

\* The number of distinct references up to the first place that names x.
Rank(refs, x) ==
    LET first == CHOOSE i \in 1 .. Len(refs) :
                     refs[i] = x /\ \A j \in 1 .. (i - 1) : refs[j] # x
    IN  Cardinality({refs[j] : j \in 1 .. first})

Compact(heap, refs) ==
    [k \in 1 .. Cardinality(Range(refs)) |->
        heap[CHOOSE x \in Range(refs) : Rank(refs, x) = k]]

Collect(g) ==
    LET br == BoardRefs(g)
        nr == NotesRefs(g)
        Snap(s) == <<Rank(br, s[1]), Rank(nr, s[2]), s[3], s[4]>>
    IN  [g EXCEPT !.boards = Compact(g.boards, br),
                  !.noteobjs = Compact(g.noteobjs, nr),
                  !.puzzle = Rank(br, g.puzzle),
                  !.solution = Rank(br, g.solution),
                  !.notes = Rank(nr, g.notes),
                  !.history = [i \in 1 .. Len(g.history) |-> Snap(g.history[i])],
                  !.future = [i \in 1 .. Len(g.future) |-> Snap(g.future[i])]]

\* What a caller can observe of the game: the contents behind each field.
SnapView(g, s) == <<g.boards[s[1]], g.noteobjs[s[2]], s[3], s[4]>>

View(g) ==
    [puzzle |-> g.boards[g.puzzle],
     notes |-> g.noteobjs[g.notes],
     mistakes |-> g.mistakes,
     hints_left |-> g.hints_left,
     history |-> [i \in 1 .. Len(g.history) |-> SnapView(g, g.history[i])],
     future |-> [i \in 1 .. Len(g.future) |-> SnapView(g, g.future[i])]]

\* The part of the game a snapshot saves.
Core(v) == <<v.puzzle, v.notes, v.mistakes, v.hints_left>>

-----------------------------------------------------------------------------
(* The game as a state machine: one action per method call.               *)

\* A call: the method, its coordinate, its return value, whether it changed
\* the game, and how long History and Future were when it was made.
Call(op, coord, ret, g) ==
    [op |-> op, coord |-> coord, ret |-> ret, eff |-> (g # game),
     hist |-> Len(game.history), fut |-> Len(game.future)]

\* History is unbounded in the program; the model stops growing it here.
Room(g) == Len(g.history) <= MaxHistory

\* A call that changed nothing allocated nothing.
Settle(g) == IF g = game THEN game ELSE Collect(g)

SetValue(coord, value) ==
    \E g \in {set_value(game, coord, value)} :
        /\ Room(g)
        /\ game' = Settle(g)
        /\ last' = Call("set_value", coord, None, g)
        /\ UNCHANGED <<given, gen, probe>>

ToggleNote(coord, value) ==
    \E g \in {toggle_note(game, coord, value)} :
        /\ Room(g)
        /\ game' = Settle(g)
        /\ last' = Call("toggle_note", coord, None, g)
        /\ UNCHANGED <<given, gen, probe>>

Hint(coord) ==
    \E res \in {hint(game, coord)} :
        /\ Room(res.g)
        /\ game' = Settle(res.g)
        /\ last' = Call("hint", coord, res.ret, res.g)
        /\ UNCHANGED <<given, gen, probe>>

Undo ==
    \E g \in {undo(game)} :
        /\ game' = Settle(g)
        /\ last' = Call("undo", <<0, 0>>, None, g)
        /\ UNCHANGED <<given, gen, probe>>

Redo ==
    \E g \in {redo(game)} :
        /\ game' = Settle(g)
        /\ last' = Call("redo", <<0, 0>>, None, g)
        /\ UNCHANGED <<given, gen, probe>>

-----------------------------------------------------------------------------
(* Games to start from.  Any rule-valid grid is an outcome of _solve, and  *)
(* _dig_holes can stop after any number of kept removals, so a valid grid  *)
(* with a few cells removed is a pair that generate can return.            *)

PatternCell(coord) ==
    ((Box * (coord[1] % Box) + (coord[1] \div Box) + coord[2]) % Size) + 1

PatternSolution == MakeBoard(PatternCell)

StartHoles == {<<0, 0>>, <<1, Size - 1>>}

StartCell(coord) == IF coord \in StartHoles THEN 0 ELSE PatternCell(coord)

StartPuzzle == MakeBoard(StartCell)

PlayDifficulties == {"hard", "expert"}

\* The coordinates and values the host passes in.
PlayCoords == StartHoles \cup {<<0, 1>>}

PlayValues == {0, 1, 2}

NoteValues == {1, 2}

\* SudokuGame.new(difficulty), given what generate returned
NewGame(d, puz, sol) ==
    [boards |-> <<sol, puz>>,
     noteobjs |-> << <<>> >>,
     solution |-> 1,
     puzzle |-> 2,
     notes |-> 1,
     difficulty |-> d,
     hints_left |-> Config(d).hints,
     max_mistakes |-> Config(d).max_mistakes,
     mistakes |-> 0,
     history |-> <<>>,
     future |-> <<>>]

NoCall == [op |-> "new", coord |-> <<0, 0>>, ret |-> None, eff |-> FALSE,
           hist |-> 0, fut |-> 0]

GenIdle == [pc |-> "idle"]

ProbeIdle == [pc |-> "idle"]

Init ==
    /\ \E d \in PlayDifficulties :
           game = NewGame(d, StartPuzzle, PatternSolution)
    /\ given = {coord \in Coords : Cell(StartPuzzle, coord) # 0}
    /\ last = NoCall
    /\ gen = GenIdle
    /\ probe = ProbeIdle

Next ==
    \/ \E coord \in PlayCoords, value \in PlayValues : SetValue(coord, value)
    \/ \E coord \in PlayCoords, value \in NoteValues : ToggleNote(coord, value)
    \/ \E coord \in PlayCoords : Hint(coord)
    \/ Undo
    \/ Redo

Spec == Init /\ [][Next]_vars

TypeOK ==
    /\ \A i \in 1 .. Len(game.boards) : game.boards[i] \in [Rows -> [Rows -> 0 .. Size]]
    /\ game.puzzle \in 1 .. Len(game.boards)
    /\ game.solution \in 1 .. Len(game.boards)
    /\ game.notes \in 1 .. Len(game.noteobjs)
    /\ Len(game.history) + Len(game.future) <= MaxHistory
    /\ game.mistakes \in Nat
    /\ game.hints_left \in Nat

-----------------------------------------------------------------------------
(* find_conflicts *)

\* seen_row of one idx: value -> the columns holding it
seen_row(board, idx) ==
    [val \in {Cell(board, <<idx, j>>) : j \in Idx} \ {0} |->
        {j \in Idx : Cell(board, <<idx, j>>) = val}]

\* seen_col of one idx: value -> the rows holding it
seen_col(board, idx) ==
    [val \in {Cell(board, <<j, idx>>) : j \in Idx} \ {0} |->
        {j \in Idx : Cell(board, <<j, idx>>) = val}]

BoxCoords(br, bc) == (br .. (br + Box - 1)) \X (bc .. (bc + Box - 1))

\* range(0, 9, 3)
BoxStarts == {Box * i : i \in 0 .. (Box - 1)}

\* seen_box of one box: value -> the coordinates holding it
seen_box(board, br, bc) ==
    [val \in {Cell(board, coord) : coord \in BoxCoords(br, bc)} \ {0} |->
        {coord \in BoxCoords(br, bc) : Cell(board, coord) = val}]

\* The entries of a seen dict with more than one element
Repeated(seen) == {seen[val] : val \in {v \in DOMAIN seen : Cardinality(seen[v]) > 1}}

RowConflicts(board) ==
    UNION {{<<idx, col>> : col \in UNION Repeated(seen_row(board, idx))} : idx \in Idx}

ColConflicts(board) ==
    UNION {{<<row, idx>> : row \in UNION Repeated(seen_col(board, idx))} : idx \in Idx}

BoxConflicts(board) ==
    UNION {UNION Repeated(seen_box(board, br, bc)) : br \in BoxStarts, bc \in BoxStarts}

find_conflicts_no_box(board) == RowConflicts(board) \cup ColConflicts(board)

find_conflicts(board) ==
    RowConflicts(board) \cup ColConflicts(board) \cup BoxConflicts(board)

-----------------------------------------------------------------------------
(* A run of SudokuGenerator.generate.  gen holds the locals of generate,   *)
(* _solve and _dig_holes:                                                  *)
(*   heap      the board objects; board and solution are references        *)
(*   stack     the frames of _solve, each the cell and the numbers its     *)
(*             for loop has not tried yet                                  *)
(*   ret       the value the last finished call of _solve returned         *)
(*   stream    where _dig_holes' coordinates come from                     *)

Ascending == [i \in 1 .. Size |-> i]

Descending == [i \in 1 .. Size |-> Size + 1 - i]

\* Outcomes of random.shuffle(nums)
ShuffleOrders == {Ascending, Descending}

Shuffles(depth) == IF depth < FreeDepth THEN ShuffleOrders ELSE {Ascending}

\* Sources of (random.randint(0, 8), random.randint(0, 8)): draw k is cell
\* start + step * (k mod period) in row-major numbering.  Both visit 40
\* cells spread over the grid again and again, so a run meets cells it
\* has dug already, and a run that may dig more than 40 holes uses up its
\* attempts.
DigStreams == {[start |-> 0, step |-> 16, period |-> 40],
               [start |-> 0, step |-> 7, period |-> 40]}

Draw(stream, k) ==
    LET n == (stream.start + stream.step * (k % stream.period)) % (Size * Size)
    IN  <<n \div Size, n % Size>>

GenDifficulties == DOMAIN DIFFICULTIES

GenBoard(s) == s.heap[s.board]

GenSolution(s) == s.heap[s.solution]

\* generate up to the call of _solve
generate_enter(d) ==
    [pc |-> "solve", difficulty |-> d, holes |-> Config(d).holes,
     heap |-> <<EmptyBoard>>, board |-> 1, solution |-> 0,
     stack |-> <<>>, ret |-> FALSE,
     attempts |-> 0, removed |-> 0, stream |-> [start |-> 0, step |-> 0, period |-> 1]]

SetGenBoard(s, coord, value) ==
    [s EXCEPT !.heap[s.board] = SetCell(@, coord, value)]

Top(s) == s.stack[Len(s.stack)]

Pop(s) == SubSeq(s.stack, 1, Len(s.stack) - 1)

ReplaceTop(s, frame) == [s.stack EXCEPT ![Len(s.stack)] = frame]

\* solution = board: the same object under a second name
generate_solution_alias(s, stream) ==
    [s EXCEPT !.solution = s.board,
              !.attempts = s.holes * 6, !.removed = 0,
              !.stream = stream, !.pc = "dig"]

\* solution = deep_copy_board(board), then _dig_holes up to its loop
generate_solution(s, stream) ==
    [s EXCEPT !.heap = Append(@, deep_copy_board(GenBoard(s))),
              !.solution = Len(s.heap) + 1,
              !.attempts = s.holes * 6, !.removed = 0,
              !.stream = stream, !.pc = "dig"]

dig_continue_budget_only(s) == s.attempts > 0

\* while removed < holes and attempts > 0
dig_continue(s) == s.removed < s.holes /\ s.attempts > 0

\* The coordinate the next pass of the loop draws; attempts goes down by
\* one in every pass, so holes * 6 - attempts passes are over.
Drawn(s) == Draw(s.stream, s.holes * 6 - s.attempts)

dig_attempt_free_empty(s, coord) ==
    IF Cell(GenBoard(s), coord) = 0
    THEN s
    ELSE LET backup == Cell(GenBoard(s), coord)
             dug == SetGenBoard(s, coord, 0)
             board_copy == deep_copy_board(GenBoard(dug))
         IN  IF _count_solutions(board_copy, 2) = 1
             THEN [dug EXCEPT !.removed = @ + 1, !.attempts = @ - 1]
             ELSE [SetGenBoard(dug, coord, backup) EXCEPT !.attempts = @ - 1]

dig_attempt_keep_any(s, coord) ==
    IF Cell(GenBoard(s), coord) = 0
    THEN [s EXCEPT !.attempts = @ - 1]
    ELSE LET dug == SetGenBoard(s, coord, 0)
             board_copy == deep_copy_board(GenBoard(dug))
         IN  IF _count_solutions(board_copy, 2) >= 1
             THEN [dug EXCEPT !.removed = @ + 1, !.attempts = @ - 1]
             ELSE [s EXCEPT !.attempts = @ - 1]

\* One pass of the loop of _dig_holes
dig_attempt(s, coord) ==
    IF Cell(GenBoard(s), coord) = 0
    THEN [s EXCEPT !.attempts = @ - 1]
    ELSE LET backup == Cell(GenBoard(s), coord)
             dug == SetGenBoard(s, coord, 0)
             board_copy == deep_copy_board(GenBoard(dug))
         IN  IF _count_solutions(board_copy, 2) = 1
             THEN [dug EXCEPT !.removed = @ + 1, !.attempts = @ - 1]
             ELSE [SetGenBoard(dug, coord, backup) EXCEPT !.attempts = @ - 1]

GenStart(d) ==
    /\ gen.pc = "idle"
    /\ gen' = generate_enter(d)
    /\ UNCHANGED <<game, given, last, probe>>

\* _solve: no empty cell, return True
SolveFull ==
    /\ gen.pc = "solve"
    /\ _find_empty(GenBoard(gen)) = NoCoord
    /\ gen' = [gen EXCEPT !.pc = "return", !.ret = TRUE]
    /\ UNCHANGED <<game, given, last, probe>>

\* _solve: an empty cell, nums shuffled
SolveShuffle(nums) ==
    /\ gen.pc = "solve"
    /\ nums \in Shuffles(Len(gen.stack))
    /\ _find_empty(GenBoard(gen)) # NoCoord
    /\ gen' = [gen EXCEPT
                 !.stack = Append(@, [coord |-> _find_empty(GenBoard(gen)),
                                      nums |-> nums]),
                 !.pc = "loop"]
    /\ UNCHANGED <<game, given, last, probe>>

\* The positions in the frame's nums of the numbers _is_valid accepts
ValidAt(s) ==
    LET coord == Top(s).coord
        nums == Top(s).nums
    IN  {i \in 1 .. Len(nums) : _is_valid(GenBoard(s), coord[1], coord[2], nums[i])}

\* for num in nums: the loop runs to the first valid num, places it and
\* recurses
SolvePlace ==
    /\ gen.pc = "loop"
    /\ ValidAt(gen) # {}
    /\ LET coord == Top(gen).coord
           nums == Top(gen).nums
           i == CHOOSE v \in ValidAt(gen) : \A w \in ValidAt(gen) : v <= w
       IN  gen' = [SetGenBoard(gen, coord, nums[i]) EXCEPT
                     !.stack = ReplaceTop(gen, [coord |-> coord,
                                                nums |-> SubSeq(nums, i + 1, Len(nums))]),
                     !.pc = "solve"]
    /\ UNCHANGED <<game, given, last, probe>>

\* the loop runs out without a valid num: return False
SolveExhausted ==
    /\ gen.pc = "loop"
    /\ ValidAt(gen) = {}
    /\ gen' = [gen EXCEPT !.stack = Pop(gen), !.ret = FALSE, !.pc = "return"]
    /\ UNCHANGED <<game, given, last, probe>>

\* if self._solve(board): return True
SolveSucceed ==
    /\ gen.pc = "return"
    /\ gen.stack # <<>>
    /\ gen.ret
    /\ gen' = [gen EXCEPT !.stack = Pop(gen)]
    /\ UNCHANGED <<game, given, last, probe>>

\* the recursive call returned False: board[row][col] = 0, next num
SolveBacktrack ==
    /\ gen.pc = "return"
    /\ gen.stack # <<>>
    /\ ~gen.ret
    /\ gen' = [SetGenBoard(gen, Top(gen).coord, 0) EXCEPT !.pc = "loop"]
    /\ UNCHANGED <<game, given, last, probe>>

\* the outermost _solve returned (its value is dropped); copy, start digging
GenCopy(stream) ==
    /\ gen.pc = "return"
    /\ gen.stack = <<>>
    /\ gen' = generate_solution(gen, stream)
    /\ UNCHANGED <<game, given, last, probe>>

\* the drawn cell is already 0
DigEmpty ==
    /\ gen.pc = "dig"
    /\ dig_continue(gen)
    /\ Cell(GenBoard(gen), Drawn(gen)) = 0
    /\ gen' = dig_attempt(gen, Drawn(gen))
    /\ UNCHANGED <<game, given, last, probe>>

\* the puzzle without the drawn cell has one solution: the cell stays 0
DigKeep ==
    /\ gen.pc = "dig"
    /\ dig_continue(gen)
    /\ Cell(GenBoard(gen), Drawn(gen)) # 0
    /\ \E s \in {dig_attempt(gen, Drawn(gen))} :
           /\ s.removed # gen.removed
           /\ gen' = s
    /\ UNCHANGED <<game, given, last, probe>>

\* it has none or several: the cell gets its value back
DigRestore ==
    /\ gen.pc = "dig"
    /\ dig_continue(gen)
    /\ Cell(GenBoard(gen), Drawn(gen)) # 0
    /\ \E s \in {dig_attempt(gen, Drawn(gen))} :
           /\ s.removed = gen.removed
           /\ gen' = s
    /\ UNCHANGED <<game, given, last, probe>>

\* the loop of _dig_holes ends; return board, solution
GenReturn ==
    /\ gen.pc = "dig"
    /\ ~dig_continue(gen)
    /\ gen' = [gen EXCEPT !.pc = "done"]
    /\ UNCHANGED <<game, given, last, probe>>

\* SudokuGame.new builds the game from the returned pair
New ==
    /\ gen.pc = "done"
    /\ gen' = [gen EXCEPT !.pc = "new"]
    /\ game' = NewGame(gen.difficulty, GenBoard(gen), GenSolution(gen))
    /\ given' = {coord \in Coords : Cell(GenBoard(gen), coord) # 0}
    /\ last' = NoCall
    /\ UNCHANGED probe

InitGen ==
    /\ game = NewGame("medium", StartPuzzle, PatternSolution)
    /\ given = {coord \in Coords : Cell(StartPuzzle, coord) # 0}
    /\ last = NoCall
    /\ gen = GenIdle
    /\ probe = ProbeIdle

NextGen ==
    \/ \E d \in GenDifficulties : GenStart(d)
    \/ SolveFull
    \/ \E nums \in ShuffleOrders : SolveShuffle(nums)
    \/ SolvePlace
    \/ SolveExhausted
    \/ SolveSucceed
    \/ SolveBacktrack
    \/ \E stream \in DigStreams : GenCopy(stream)
    \/ DigEmpty
    \/ DigKeep
    \/ DigRestore
    \/ GenReturn
    \/ New

SpecGen == InitGen /\ [][NextGen]_vars

\* generate runs on one thread from its call to its return: a step that can
\* be taken is taken.
SpecGenFair == SpecGen /\ WF_vars(NextGen)

-----------------------------------------------------------------------------
(* Calls of find_conflicts.  probe holds the board of the call and the set *)
(* it returned; the boards are an empty grid or a full valid grid with a   *)
(* few cells overwritten.                                                  *)

ProbeBoards == {EmptyBoard, PatternSolution}

ProbeCoords == {<<0, 0>>, <<0, 5>>, <<1, 1>>, <<5, 0>>, <<4, 7>>}

ProbeValues == {0, 1, 2}

Probed(board) ==
    [pc |-> "called", board |-> board, conflicts |-> find_conflicts(board)]

ProbePlace(coord, value) ==
    /\ probe.pc = "called"
    /\ probe' = Probed(SetCell(probe.board, coord, value))
    /\ UNCHANGED <<game, given, last, gen>>

InitConf ==
    /\ game = NewGame("medium", StartPuzzle, PatternSolution)
    /\ given = {coord \in Coords : Cell(StartPuzzle, coord) # 0}
    /\ last = NoCall
    /\ gen = GenIdle
    /\ \E board \in ProbeBoards : probe = Probed(board)

NextConf == \E coord \in ProbeCoords, value \in ProbeValues : ProbePlace(coord, value)

SpecConf == InitConf /\ [][NextConf]_vars

-----------------------------------------------------------------------------
(* Calls of _is_valid on the boards of the section above and on their      *)
(* transposes.                                                             *)

\* The board with rows and columns exchanged
Transpose(board) == [i \in Rows |-> [j \in Rows |-> board[j][i]]]

\* The rows and columns asked about
AskIdx == {0, 1, 5}

AskNums == {1, 2}

\* _is_valid(board, row, col, num) and _is_valid(transpose, col, row, num)
ProbeValid(row, col, num) ==
    /\ probe.pc = "called"
    /\ probe' = [pc |-> "asked", board |-> probe.board,
                 row |-> row, col |-> col, num |-> num,
                 valid |-> _is_valid(probe.board, row, col, num),
                 mirrored |-> _is_valid(Transpose(probe.board), col, row, num)]
    /\ UNCHANGED <<game, given, last, gen>>

NextValid ==
    \/ \E coord \in ProbeCoords, value \in ProbeValues : ProbePlace(coord, value)
    \/ \E row \in AskIdx, col \in AskIdx, num \in AskNums :
           ProbeValid(row, col, num)

SpecValid == InitConf /\ [][NextValid]_vars

-----------------------------------------------------------------------------
(* The host, SudokuApp: its handlers call the game's methods and replace   *)
(* the game.  self.selected and self.pencil_mode change with every click   *)
(* and key press between two handlers, so they are inputs of the handlers. *)
(* generate is taken to return the pair (HostPuzzle, PatternSolution).     *)

\* History may grow to this length under the host's handlers.
MaxHostHistory == 3

HostHoles == StartHoles \cup {<<Size - 1, 0>>}

HostCell(coord) == IF coord \in HostHoles THEN 0 ELSE PatternCell(coord)

HostPuzzle == MakeBoard(HostCell)

\* self.selected: None or a coordinate
HostSelections == HostHoles \cup {<<0, 1>>, NoCoord}

HostValues == {0, 1, 2}

\* The digit keys pressed, with the pencil mode at that moment
HostKeys ==
    {[pencil_mode |-> FALSE, value |-> value] : value \in HostValues}
        \cup {[pencil_mode |-> TRUE, value |-> value] : value \in {0, 2}}

new_game_keep_mistakes(g, difficulty) ==
    [NewGame(difficulty, HostPuzzle, PatternSolution) EXCEPT
        !.mistakes = g.mistakes]

\* SudokuApp.new_game: self.game = SudokuGame.new(difficulty), whatever
\* the game was
new_game(g, difficulty) == NewGame(difficulty, HostPuzzle, PatternSolution)

\* SudokuApp.reset_progress
reset_progress(g) == NewGame(g.difficulty, HostPuzzle, PatternSolution)

_check_completion_no_reset(g) == g

\* SudokuApp._check_completion: the message boxes change nothing
_check_completion(g) ==
    IF g.mistakes >= g.max_mistakes THEN reset_progress(g) ELSE g

\* SudokuApp.handle_number
handle_number(g, selected, pencil_mode, value) ==
    IF selected = NoCoord THEN g
    ELSE IF selected \in fixed_cells(g) THEN g
    ELSE IF pencil_mode /\ value # 0
         THEN _check_completion(toggle_note(g, selected, value))
    ELSE LET g1 == set_value(g, selected, value)
             g2 == IF value # 0 /\ Cell(g1.boards[g1.puzzle], selected)
                                     = Cell(g1.boards[g1.solution], selected)
                   THEN [g1 EXCEPT !.noteobjs[g1.notes] = DictPop(@, selected)]
                   ELSE g1
         IN  _check_completion(g2)

\* SudokuApp.use_hint
use_hint(g, selected) ==
    IF selected = NoCoord THEN g
    ELSE LET res == hint(g, selected)
         IN  IF res.ret = None THEN res.g ELSE _check_completion(res.g)

\* The last handler that changed or replaced the game: which one, whether
\* it replaced the game, and whether the game before it had been played
\* (a snapshot on History and a mistake counted).
HostCall(op, replaced) ==
    [op |-> op, replaced |-> replaced,
     played |-> (game.history # <<>> /\ game.mistakes > 0)]

Handled(op, g, replaced) ==
    IF g = game THEN last ELSE HostCall(op, replaced)

HostRoom(g) == Len(g.history) <= MaxHostHistory

HandleNumber(selected, pencil_mode, value) ==
    \E g \in {handle_number(game, selected, pencil_mode, value)} :
        /\ HostRoom(g)
        /\ game' = Settle(g)
        /\ last' = Handled("handle_number", g,
                           g.history = <<>> /\ game.history # <<>>)
        /\ UNCHANGED <<given, gen, probe>>

UseHint(selected) ==
    \E g \in {use_hint(game, selected)} :
        /\ HostRoom(g)
        /\ game' = Settle(g)
        /\ last' = Handled("use_hint", g, FALSE)
        /\ UNCHANGED <<given, gen, probe>>

\* SudokuApp.undo
HostUndo ==
    \E g \in {undo(game)} :
        /\ game' = Settle(g)
        /\ last' = Handled("undo", g, FALSE)
        /\ UNCHANGED <<given, gen, probe>>

\* SudokuApp.redo
HostRedo ==
    \E g \in {redo(game)} :
        /\ game' = Settle(g)
        /\ last' = Handled("redo", g, FALSE)
        /\ UNCHANGED <<given, gen, probe>>

StartGame(difficulty) ==
    \E g \in {new_game(game, difficulty)} :
        /\ game' = g
        /\ last' = Handled("new_game", g, TRUE)
        /\ UNCHANGED <<given, gen, probe>>

ResetProgress ==
    \E g \in {reset_progress(game)} :
        /\ game' = g
        /\ last' = Handled("reset_progress", g, TRUE)
        /\ UNCHANGED <<given, gen, probe>>

InitHost ==
    /\ \E d \in PlayDifficulties : game = NewGame(d, HostPuzzle, PatternSolution)
    /\ given = {coord \in Coords : Cell(HostPuzzle, coord) # 0}
    /\ last = [op |-> "start_from_home", replaced |-> TRUE, played |-> FALSE]
    /\ gen = GenIdle
    /\ probe = ProbeIdle

NextHost ==
    \/ \E selected \in HostSelections, key \in HostKeys :
           HandleNumber(selected, key.pencil_mode, key.value)
    \/ \E selected \in HostSelections : UseHint(selected)
    \/ HostUndo
    \/ HostRedo
    \/ \E d \in PlayDifficulties : StartGame(d)
    \/ ResetProgress

SpecHost == InitHost /\ [][NextHost]_vars

-----------------------------------------------------------------------------
(* Properties of the game.  A property of a call is stated of the method   *)
(* applied to the game of every reachable state, for every argument the    *)
(* host may pass; the witnesses are states in which such a call was made.  *)

Puz(g) == g.boards[g.puzzle]

Sol(g) == g.boards[g.solution]

\* The notes entry of a coordinate: {} when there is none, else {the set}.
NoteAt(g, coord) ==
    IF coord \in DOMAIN g.noteobjs[g.notes]
    THEN {g.noteobjs[g.notes][coord]} ELSE {}

\* P holds of the game after each play action the host may call on g.
AfterEachPlay(g, P(_)) ==
    \A coord \in PlayCoords :
        /\ \A value \in PlayValues : P(set_value(g, coord, value))
        /\ \A value \in NoteValues : P(toggle_note(g, coord, value))
        /\ P(hint(g, coord).g)

\* P holds of the game after each play action on one coordinate, for every
\* value.
AfterEachPlayAt(g, coord, P(_)) ==
    /\ \A value \in 0 .. Size : P(set_value(g, coord, value))
    /\ \A value \in Digits : P(toggle_note(g, coord, value))
    /\ P(hint(g, coord).g)

PlayOps == {"set_value", "toggle_note", "hint"}

\* Coordinates the properties quantify over: those the host passes in and
\* the diagonal, which meets every row, column and box.
SomeCoords == PlayCoords \cup {<<i, i>> : i \in Idx}

\* C1: after any play action that passed its guard, undo() restores Puzzle,
\* Notes, mistakes and hints_left to their values before the action, and a
\* redo() after that undo() restores their values after the action.
RoundTripOf(g1) ==
    g1 # game =>
        /\ Core(View(undo(g1))) = Core(View(game))
        /\ Core(View(redo(undo(g1)))) = Core(View(g1))

RoundTrip == AfterEachPlay(game, RoundTripOf)

\* C1 witness: a redo has just brought back the result of an action that
\* changed the saved part of the game.
RoundTripSeen ==
    /\ last.op = "redo" /\ last.eff
    /\ game.history # <<>>
    /\ SnapView(game, game.history[Len(game.history)]) # Core(View(game))

\* C2: a play action on a cell that was given at game start changes neither
\* the Puzzle value nor the Notes entry of that cell, whatever the value.
FixedImmutable ==
    \A coord \in given \cap SomeCoords :
        LET Same(g1) == /\ Cell(Puz(g1), coord) = Cell(Puz(game), coord)
                        /\ NoteAt(g1, coord) = NoteAt(game, coord)
        IN  AfterEachPlayAt(game, coord, Same)

\* C2 witness: a play action was called on a given cell.
FixedCallSeen == last.op \in PlayOps /\ last.coord \in given

\* C3 as claimed: set_value with a wrong non-zero value adds one to mistakes
\* at every coordinate, and with the solution's value leaves mistakes alone.
MistakeAccountingEverywhere ==
    \A coord \in SomeCoords :
        \A value \in 0 .. Size :
            LET m == set_value(game, coord, value).mistakes
            IN  /\ (value # 0 /\ value # Cell(Sol(game), coord))
                       => m = game.mistakes + 1
                /\ value = Cell(Sol(game), coord) => m = game.mistakes

\* C3 amended: the same, at every coordinate whose Puzzle cell is 0 (a cell
\* that is not fixed); on a fixed cell set_value leaves mistakes unchanged.
MistakeAccounting ==
    \A coord \in SomeCoords :
        \A value \in 0 .. Size :
            LET m == set_value(game, coord, value).mistakes
            IN  IF coord \in fixed_cells(game)
                THEN m = game.mistakes
                ELSE /\ (value # 0 /\ value # Cell(Sol(game), coord))
                            => m = game.mistakes + 1
                     /\ value = Cell(Sol(game), coord) => m = game.mistakes

\* C3 witness: set_value has just written a wrong value and counted it.
MistakeSeen ==
    /\ last.op = "set_value" /\ last.eff
    /\ Cell(Puz(game), last.coord) \notin {0, Cell(Sol(game), last.coord)}
    /\ game.mistakes > 0

\* The games reached from g by n hints in a row, each on a cell that is not
\* fixed.
RECURSIVE HintRuns(_, _)
HintRuns(g, n) ==
    IF n = 0 THEN {g}
    ELSE UNION {HintRuns(hint(g, coord).g, n - 1) :
                   coord \in PlayCoords \ fixed_cells(g)}

\* C4: a hint on a cell that is not fixed, with hints left, writes the
\* solution's digit, returns it and takes one from hints_left; hints_left
\* such hints in a row end with hints_left = 0, and any hint after that
\* returns None and changes nothing.
HintBudget ==
    /\ \A coord \in PlayCoords \ fixed_cells(game) :
           LET res == hint(game, coord)
           IN  game.hints_left > 0 =>
                   /\ res.ret = Cell(Sol(game), coord)
                   /\ Cell(Puz(res.g), coord) = Cell(Sol(game), coord)
                   /\ res.g.hints_left = game.hints_left - 1
    /\ \A g2 \in HintRuns(game, game.hints_left) :
           /\ g2.hints_left = 0
           /\ \A coord \in PlayCoords :
                  /\ hint(g2, coord).ret = None
                  /\ View(hint(g2, coord).g) = View(g2)

\* C4 witness: the budget is used up and a further hint, on an empty cell,
\* has just returned None.
HintRefusedSeen ==
    /\ last.op = "hint" /\ last.ret = None
    /\ game.hints_left = 0
    /\ game.hints_left < Config(game.difficulty).hints
    /\ Cell(Puz(game), last.coord) = 0

-----------------------------------------------------------------------------
(* Properties of generate and find_conflicts *)

\* The values of the cells of a set of coordinates
Values(board, coords) == {Cell(board, coord) : coord \in coords}

\* The rows, the columns and the boxes, each a set of Size coordinates
Units ==
    {{<<i, j>> : j \in Idx} : i \in Idx}
        \cup {{<<j, i>> : j \in Idx} : i \in Idx}
        \cup {BoxCoords(br, bc) : br \in BoxStarts, bc \in BoxStarts}

Empties(board) == {coord \in Coords : Cell(board, coord) = 0}

\* C5: once generate has copied the solution, and so for the pair it
\* returns, Solution has no zero cell, every row, column and box of it
\* holds each of 1..9 (no value twice), find_conflicts(Solution) is empty,
\* and every non-zero Puzzle cell equals the Solution cell of its
\* coordinate; and the outermost _solve returned True.
SolutionValid ==
    /\ gen.pc = "return" /\ gen.stack = <<>> => gen.ret
    /\ gen.pc \in {"dig", "done"} =>
           /\ Empties(GenSolution(gen)) = {}
           /\ \A unit \in Units : Values(GenSolution(gen), unit) = Digits
           /\ find_conflicts(GenSolution(gen)) = {}
           /\ \A coord \in Coords :
                  Cell(GenBoard(gen), coord) # 0 =>
                      Cell(GenBoard(gen), coord) = Cell(GenSolution(gen), coord)

\* C5 witness: generate returned a "hard" pair whose solution came from a
\* descending shuffle at the first cell and whose puzzle has that cell
\* removed.
SolutionReturned ==
    /\ gen.pc = "done"
    /\ gen.difficulty = "hard"
    /\ Cell(GenSolution(gen), <<0, 0>>) = Size
    /\ Cell(GenBoard(gen), <<0, 0>>) = 0

\* C6: the Puzzle that generate returns has exactly one completion:
\* _count_solutions(Puzzle, 2) = 1, and that completion is Solution.
UniqueCompletion ==
    gen.pc = "done" =>
        /\ _count_solutions(GenBoard(gen), 2) = 1
        /\ \A unit \in Units : Values(GenSolution(gen), unit) = Digits
        /\ \A coord \in Coords \ Empties(GenBoard(gen)) :
               Cell(GenBoard(gen), coord) = Cell(GenSolution(gen), coord)

\* C6 witness: generate returned after _dig_holes used up its attempts,
\* having put back at least one cell it had drawn.
UniqueAfterExhaustion ==
    /\ gen.pc = "done"
    /\ gen.attempts = 0
    /\ gen.removed < gen.holes
    /\ \E k \in 0 .. (gen.stream.period - 1) :
           Cell(GenBoard(gen), Draw(gen.stream, k)) # 0

\* C7: while _dig_holes runs and when generate returns, the number of empty
\* Puzzle cells equals removed and is at most config.holes (36 for "easy");
\* generate returns with fewer than holes only when attempts ran out.
HoleBound ==
    gen.pc \in {"dig", "done"} =>
        /\ Cardinality(Empties(GenBoard(gen))) = gen.removed
        /\ gen.removed <= Config(gen.difficulty).holes
        /\ gen.difficulty = "easy" => Cardinality(Empties(GenBoard(gen))) <= 36
        /\ gen.pc = "done" /\ gen.removed < gen.holes => gen.attempts = 0

\* C7 witness: generate returned an "easy" puzzle with exactly 36 empty
\* cells and attempts to spare.
EasyHolesReached ==
    /\ gen.pc = "done"
    /\ gen.difficulty = "easy"
    /\ Cardinality(Empties(GenBoard(gen))) = 36
    /\ gen.attempts > 0

\* Two different coordinates in one row, one column or one box
Related(a, b) ==
    /\ a # b
    /\ \/ a[1] = b[1]
       \/ a[2] = b[2]
       \/ a[1] \div Box = b[1] \div Box /\ a[2] \div Box = b[2] \div Box

\* The board with 1 at the coordinates of a set and 0 elsewhere
OnesAt(coords) == [i \in Rows |-> [j \in Rows |-> IF <<i - 1, j - 1>> \in coords THEN 1 ELSE 0]]

\* C8: find_conflicts returns exactly the coordinates whose non-zero value
\* is also at a related coordinate; the all-zero board gives {}, 1 at
\* (0,0) and (0,5) gives both, and so does 1 at (0,0) and (1,1).
ConflictsCharacterised ==
    probe.pc = "called" =>
        /\ probe.conflicts =
               {coord \in Coords :
                   /\ Cell(probe.board, coord) # 0
                   /\ \E other \in Coords :
                          /\ Related(coord, other)
                          /\ Cell(probe.board, other) = Cell(probe.board, coord)}
        /\ probe.board = EmptyBoard => probe.conflicts = {}
        /\ probe.board = OnesAt({<<0, 0>>, <<0, 5>>}) =>
               probe.conflicts = {<<0, 0>>, <<0, 5>>}
        /\ probe.board = OnesAt({<<0, 0>>, <<1, 1>>}) =>
               probe.conflicts = {<<0, 0>>, <<1, 1>>}
        /\ probe.conflicts = {} =>
               \A unit \in Units : \A a \in unit, b \in unit :
                   a # b /\ Cell(probe.board, a) # 0 =>
                       Cell(probe.board, a) # Cell(probe.board, b)

\* C8 witness: find_conflicts was called on the board with 1 at (0,0) and
\* (1,1), which share a box but no row or column.
BoxConflictSeen ==
    /\ probe.pc = "called"
    /\ probe.board = OnesAt({<<0, 0>>, <<1, 1>>})
    /\ probe.conflicts # {}

-----------------------------------------------------------------------------
(* Properties of the game, continued *)

\* C9: a play action that passed its guard leaves Future empty, and a
\* redo() right after it changes nothing.
RedoInvalidatedOf(g1) ==
    g1 # game => g1.future = <<>> /\ View(redo(g1)) = View(g1)

RedoInvalidated == AfterEachPlay(game, RedoInvalidatedOf)

\* C9 witness: a play action has just discarded a Future of two snapshots.
RedoInvalidatedSeen ==
    /\ last.op \in PlayOps /\ last.eff
    /\ last.fut >= 2
    /\ game.future = <<>>

\* C10: undo() with an empty History and redo() with an empty Future leave
\* Puzzle, Notes, mistakes, hints_left, History and Future as they were.
EmptyStackNoOp ==
    /\ game.history = <<>> => View(undo(game)) = View(game)
    /\ game.future = <<>> => View(redo(game)) = View(game)

\* C10 witness: undo was just called with History empty while Future held
\* a snapshot.
EmptyUndoSeen ==
    /\ last.op = "undo" /\ last.hist = 0 /\ last.fut > 0
    /\ game.future # <<>>

\* The coordinates among SomeCoords whose cell set_value, toggle_note and
\* hint may change in g
OpenCoords(g) == SomeCoords \ fixed_cells(g)

\* C11: set_value(coord, value) on a cell that is not fixed puts one
\* snapshot equal to the state before the call on top of History, writes
\* value to Puzzle[coord], removes the Notes entry of coord, and leaves the
\* other Puzzle cells, the other Notes entries, hints_left and Solution as
\* they were.
SetValueFrame ==
    \A coord \in OpenCoords(game) :
        \A value \in 0 .. Size :
            LET g1 == set_value(game, coord, value)
                v0 == View(game)
                v1 == View(g1)
            IN  /\ Len(v1.history) = Len(v0.history) + 1
                /\ v1.history[Len(v1.history)] = Core(v0)
                /\ SubSeq(v1.history, 1, Len(v0.history)) = v0.history
                /\ v1.puzzle = SetCell(v0.puzzle, coord, value)
                /\ v1.notes = DictPop(v0.notes, coord)
                /\ v1.hints_left = v0.hints_left
                /\ Sol(g1) = Sol(game)

\* C11 witness: set_value has just filled a cell that had a Notes entry;
\* the snapshot on top of History still shows the entry and the cell at 0.
SetValueSeen ==
    /\ last.op = "set_value" /\ last.eff
    /\ Cell(Puz(game), last.coord) # 0
    /\ NoteAt(game, last.coord) = {}
    /\ game.history # <<>>
    /\ LET snapshot == SnapView(game, game.history[Len(game.history)])
       IN  /\ last.coord \in DOMAIN snapshot[2]
           /\ Cell(snapshot[1], last.coord) = 0

\* The Notes set of a coordinate, {} when there is no entry
NoteSet(g, coord) ==
    IF coord \in DOMAIN g.noteobjs[g.notes]
    THEN g.noteobjs[g.notes][coord] ELSE {}

\* C12: toggle_note(coord, v) on a cell that is not fixed, v in 1..9, flips
\* v in the Notes set of coord, stores no empty set, leaves the other
\* entries, Puzzle, mistakes and hints_left as they were, and a second
\* toggle_note(coord, v) brings Notes back.
ToggleFlips ==
    \A coord \in OpenCoords(game) :
        \A v \in Digits :
            LET g1 == toggle_note(game, coord, v)
                g2 == toggle_note(g1, coord, v)
            IN  /\ NoteSet(g1, coord) =
                       IF v \in NoteSet(game, coord)
                       THEN NoteSet(game, coord) \ {v}
                       ELSE NoteSet(game, coord) \cup {v}
                /\ NoteAt(g1, coord) # {{}}
                /\ DictPop(View(g1).notes, coord) = DictPop(View(game).notes, coord)
                /\ Puz(g1) = Puz(game)
                /\ g1.mistakes = game.mistakes
                /\ g1.hints_left = game.hints_left
                /\ View(g2).notes = View(game).notes

\* C12 witness: toggle_note has just taken the last value out of a set, so
\* the entry is gone and Notes is what it was two snapshots ago.
ToggleTwiceSeen ==
    /\ last.op = "toggle_note" /\ last.eff
    /\ Len(game.history) >= 2
    /\ NoteAt(game, last.coord) = {}
    /\ LET top == SnapView(game, game.history[Len(game.history)])
           below == SnapView(game, game.history[Len(game.history) - 1])
       IN  /\ last.coord \in DOMAIN top[2]
           /\ below[2] = View(game).notes

\* C15: a cell is fixed exactly when it is not 0 now; set_value (with any
\* value, 0 too), toggle_note and hint on such a cell, given or filled by
\* the player, return the game as it was, History and Future included.
CurrentlyFixedNoOp ==
    \A coord \in SomeCoords :
        /\ coord \in fixed_cells(game) <=> Cell(Puz(game), coord) # 0
        /\ Cell(Puz(game), coord) # 0 =>
               /\ \A value \in 0 .. Size : set_value(game, coord, value) = game
               /\ \A value \in Digits : toggle_note(game, coord, value) = game
               /\ hint(game, coord) = [g |-> game, ret |-> None]

\* C15 witness: set_value was just called on a cell the player had filled
\* with a wrong value, and changed nothing.
PlayerCellFixedSeen ==
    /\ last.op = "set_value" /\ ~last.eff
    /\ last.coord \notin given
    /\ Cell(Puz(game), last.coord) \notin {0, Cell(Sol(game), last.coord)}

\* C16 as stated: no step of set_value, toggle_note, hint, undo or redo
\* lowers mistakes.
MistakesNeverDecrease == [][game'.mistakes >= game.mistakes]_vars

\* C16: set_value, toggle_note, hint and redo never lower mistakes, and a
\* set_value of the solution's value leaves it as it was; undo sets mistakes
\* to the count saved in the snapshot it restores, which is never above the
\* count it replaces.
MistakesAccumulate ==
    [][/\ last'.op # "undo" => game'.mistakes >= game.mistakes
       /\ (/\ last'.op = "set_value" /\ last'.eff
           /\ Cell(Puz(game'), last'.coord) = Cell(Sol(game'), last'.coord))
              => game'.mistakes = game.mistakes
       /\ (last'.op = "undo" /\ last'.eff)
              => /\ game'.mistakes = game.history[Len(game.history)][3]
                 /\ game'.mistakes <= game.mistakes]_vars

\* C16 witness: a correct value was just entered while mistakes were
\* already counted.
CorrectAfterMistakeSeen ==
    /\ last.op = "set_value" /\ last.eff
    /\ Cell(Puz(game), last.coord) = Cell(Sol(game), last.coord)
    /\ game.mistakes > 0

\* Notes has entries only for cells that are 0 on the board, none of them
\* the empty set.
NotesOK(board, notes) ==
    \A coord \in DOMAIN notes : Cell(board, coord) = 0 /\ notes[coord] # {}

\* C17: the live Puzzle and Notes, and the board and notes of every
\* snapshot in History and Future, satisfy the Notes invariant.
NotesInvariant ==
    LET v == View(game)
    IN  /\ NotesOK(v.puzzle, v.notes)
        /\ \A i \in DOMAIN v.history : NotesOK(v.history[i][1], v.history[i][2])
        /\ \A i \in DOMAIN v.future : NotesOK(v.future[i][1], v.future[i][2])

\* C17 witness: hint has just filled a cell whose notes are kept in the
\* snapshot on top of History and are gone from the live Notes.
NotesDroppedSeen ==
    /\ last.op = "hint" /\ last.eff
    /\ Cell(Puz(game), last.coord) # 0
    /\ last.coord \notin DOMAIN game.noteobjs[game.notes]
    /\ game.history # <<>>
    /\ last.coord \in DOMAIN SnapView(game, game.history[Len(game.history)])[2]

\* No object is named twice in a sequence of references.
Unshared(refs) ==
    \A i, j \in 1 .. Len(refs) : refs[i] = refs[j] => i = j

\* The snapshots of a stack that stay on it over a step.
Kept(before, after) ==
    LET n == IF Len(before) <= Len(after) THEN Len(before) ELSE Len(after)
    IN  SubSeq(after, 1, n) = SubSeq(before, 1, n)

\* C18: the Solution, the live Puzzle and the boards of all snapshots in
\* History and Future are distinct objects, and so are the live Notes and
\* the notes of all snapshots (a board with its rows, and a notes mapping
\* with its sets, is one object); no call changes the contents of a snapshot
\* that stays on its stack.
SnapshotsIndependent ==
    /\ [](Unshared(BoardRefs(game)) /\ Unshared(NotesRefs(game)))
    /\ [][/\ Kept(View(game).history, View(game').history)
          /\ Kept(View(game).future, View(game').future)]_vars

\* C18 witness: toggle_note has just changed the live Notes under two
\* stacked snapshots; the top one keeps the old notes and an equal board.
SnapshotKeptSeen ==
    /\ last.op = "toggle_note" /\ last.eff
    /\ Len(game.history) >= 2
    /\ LET snapshot == game.history[Len(game.history)]
       IN  /\ SnapView(game, snapshot)[2] # game.noteobjs[game.notes]
           /\ SnapView(game, snapshot)[2] # <<>>
           /\ SnapView(game, snapshot)[1] = Puz(game)
           /\ snapshot[1] # game.puzzle

\* The cells of board at the given coordinates are those of the generated
\* Puzzle and of Solution.
GivenKept(board) ==
    \A coord \in given :
        /\ Cell(board, coord) = Cell(StartPuzzle, coord)
        /\ Cell(board, coord) = Cell(Sol(game), coord)

\* C22: every cell that was not 0 in the generated Puzzle holds its first
\* value, which is Solution's, in the live Puzzle and in the board of every
\* snapshot in History and Future.
GivenCellsSurvive ==
    LET v == View(game)
    IN  /\ given # {}
        /\ GivenKept(v.puzzle)
        /\ \A i \in DOMAIN v.history : GivenKept(v.history[i][1])
        /\ \A i \in DOMAIN v.future : GivenKept(v.future[i][1])

\* C22 witness: set_value has just been called on a given cell and changed
\* nothing, with snapshots on both stacks.
GivenCallSeen ==
    /\ last.op = "set_value" /\ ~last.eff
    /\ last.coord \in given
    /\ game.history # <<>>
    /\ game.future # <<>>

\* The hint allowance the game started with: cfg["hints"]
Allowance(g) == Config(g.difficulty).hints

\* C23: hints_left stays in 0 .. the difficulty's hint allowance and
\* mistakes is never negative; hint on any cell leaves hints_left at 0 or
\* above, and undo and redo leave it at the allowance or below.
CounterBounds ==
    /\ game.hints_left \in 0 .. Allowance(game)
    /\ game.mistakes >= 0
    /\ \A coord \in SomeCoords : hint(game, coord).g.hints_left >= 0
    /\ undo(game).hints_left \in 0 .. Allowance(game)
    /\ redo(game).hints_left \in 0 .. Allowance(game)

\* C23 witness: the last hint was spent, and undo has just brought
\* hints_left back to the allowance.
HintsRestoredSeen ==
    /\ last.op = "undo" /\ last.eff
    /\ game.hints_left = Allowance(game)
    /\ game.future # <<>>
    /\ game.future[Len(game.future)][4] = 0

\* The number of snapshots on the two stacks
Stacked(g) == Len(g.history) + Len(g.future)

\* C24: with a snapshot on History, undo and then redo leave Puzzle, Notes,
\* mistakes, hints_left, History and Future as they were; with a snapshot on
\* Future, redo and then undo do; each of undo and redo keeps the number of
\* snapshots on the two stacks.
UndoRedoInverse ==
    /\ game.history # <<>> => View(redo(undo(game))) = View(game)
    /\ game.future # <<>> => View(undo(redo(game))) = View(game)
    /\ Stacked(undo(game)) = Stacked(game)
    /\ Stacked(redo(game)) = Stacked(game)

\* C24 witness: redo has just run after undo, with snapshots left on both
\* stacks and a mistake counted.
RedoAfterUndoSeen ==
    /\ last.op = "redo" /\ last.eff
    /\ game.history # <<>>
    /\ game.future # <<>>
    /\ game.mistakes > 0

-----------------------------------------------------------------------------
(* Properties of the game under the host *)

\* A game as SudokuGame.new(difficulty) makes it
Fresh(g, difficulty) ==
    /\ g.mistakes = 0
    /\ g.hints_left = Config(difficulty).hints
    /\ g.max_mistakes = Config(difficulty).max_mistakes
    /\ DOMAIN g.noteobjs[g.notes] = {}
    /\ g.history = <<>>
    /\ g.future = <<>>

\* C13: the game that SudokuGame.new(difficulty) returns has mistakes = 0,
\* hints_left and max_mistakes of the difficulty's configuration, and
\* empty Notes, History and Future, whatever the game before it was.
NewGameFresh ==
    /\ last.replaced => Fresh(game, game.difficulty)
    /\ \A d \in DOMAIN DIFFICULTIES : Fresh(new_game(game, d), d)

\* C13 witness: new_game has just replaced a game that had a snapshot on
\* History and a mistake counted.
NewGameSeen ==
    /\ last.op = "new_game"
    /\ last.replaced
    /\ last.played
    /\ game.difficulty = "expert"

\* The mistakes counts of the snapshots on the two stacks
StackedMistakes(g) ==
    {g.history[i][3] : i \in 1 .. Len(g.history)}
        \cup {g.future[i][3] : i \in 1 .. Len(g.future)}

\* C19: after every handler of the host the game has mistakes <
\* max_mistakes, and so has every snapshot undo or redo can bring back; a
\* number entry that counts the last allowed mistake leaves a fresh game of
\* the same difficulty.
NoFailedGame ==
    /\ game.mistakes < game.max_mistakes
    /\ \A m \in StackedMistakes(game) : m < game.max_mistakes
    /\ undo(game).mistakes < game.max_mistakes
    /\ redo(game).mistakes < game.max_mistakes
    /\ \A selected \in HostHoles, key \in HostKeys :
           LET g1 == handle_number(game, selected, key.pencil_mode, key.value)
           IN  /\ g1.mistakes < g1.max_mistakes
               /\ g1.difficulty = game.difficulty
               /\ (set_value(game, selected, key.value).mistakes
                       >= game.max_mistakes /\ ~key.pencil_mode)
                      => Fresh(g1, game.difficulty)

\* C19 witness: a number entry has just replaced a game that had been
\* played by a fresh one.
ForcedResetSeen ==
    /\ last.op = "handle_number"
    /\ last.replaced
    /\ last.played
    /\ game.mistakes = 0
    /\ game.history = <<>>

-----------------------------------------------------------------------------
(* Calls of _count_solutions on boards whose filled cells are free of      *)
(* conflicts: a grid _solve builds, with some cells emptied or entered     *)
(* anew.                                                                   *)

\* The grid _solve fills in when every shuffle leaves nums ascending
FirstGrid ==
    << <<1, 2, 3, 4, 5, 6, 7, 8, 9>>,
       <<4, 5, 6, 7, 8, 9, 1, 2, 3>>,
       <<7, 8, 9, 1, 2, 3, 4, 5, 6>>,
       <<2, 1, 4, 3, 6, 5, 8, 9, 7>>,
       <<3, 6, 5, 8, 9, 7, 2, 1, 4>>,
       <<8, 9, 7, 2, 1, 4, 3, 6, 5>>,
       <<5, 3, 1, 6, 4, 2, 9, 7, 8>>,
       <<6, 4, 2, 9, 7, 8, 5, 3, 1>>,
       <<9, 7, 8, 5, 3, 1, 6, 4, 2>> >>

\* The cells the boards differ in: two rows and two columns of FirstGrid
\* that hold 1, 2 and 2, 1.
CountCells == {<<0, 0>>, <<0, 1>>, <<3, 0>>, <<3, 1>>}

CountEntries == {0, 1, 2}

CountLimits == {1, 2, 3}

CountBoard(entries) ==
    [i \in Rows |-> [j \in Rows |->
        IF <<i - 1, j - 1>> \in CountCells THEN entries[<<i - 1, j - 1>>]
        ELSE FirstGrid[i][j]]]

ProbeCount(entries, limit) ==
    /\ find_conflicts(CountBoard(entries)) = {}
    /\ probe' = [pc |-> "counted",
                 board |-> CountBoard(entries),
                 limit |-> limit,
                 count |-> _count_solutions(CountBoard(entries), limit),
                 after |-> _count_solutions_run(CountBoard(entries), limit).board]
    /\ UNCHANGED <<game, given, last, gen>>

NextCount ==
    \E entries \in [CountCells -> CountEntries], limit \in CountLimits :
        ProbeCount(entries, limit)

SpecCount == InitConf /\ [][NextCount]_vars

-----------------------------------------------------------------------------
(* Properties of _dig_holes *)

\* C20: _dig_holes starts with holes * 6 attempts; every pass of its loop,
\* whatever cell it draws, an empty one too, takes exactly one attempt and
\* keeps at most one more removal; the loop is left when holes removals are
\* kept or no attempt remains, and it is always left.
DigHolesTerminates ==
    /\ [](gen.pc = "dig" =>
              /\ gen.attempts \in 0 .. gen.holes * 6
              /\ gen.removed \in 0 .. gen.holes
              /\ \A coord \in Empties(GenBoard(gen)) :
                     dig_attempt(gen, coord) = [gen EXCEPT !.attempts = @ - 1])
    /\ [][/\ (gen.pc # "dig" /\ gen'.pc = "dig") =>
                 gen'.attempts = gen'.holes * 6 /\ gen'.removed = 0
          /\ gen.pc = "dig" =>
                 IF gen.removed < gen.holes /\ gen.attempts > 0
                 THEN /\ gen'.pc = "dig"
                      /\ gen'.attempts = gen.attempts - 1
                      /\ gen'.removed \in {gen.removed, gen.removed + 1}
                 ELSE gen'.pc = "done" /\ gen'.removed = gen.removed]_vars
    /\ (gen.pc = "dig") ~> (gen.pc = "done")

\* C20 witness: _dig_holes has returned with its attempts used up and fewer
\* than holes cells removed, and the cell of its last draw is empty.
BudgetSpentSeen ==
    /\ gen.pc = "done"
    /\ gen.attempts = 0
    /\ gen.removed < gen.holes
    /\ Cell(GenBoard(gen), Draw(gen.stream, gen.holes * 6 - 1)) = 0

-----------------------------------------------------------------------------
(* Properties of _count_solutions *)

\* The board with its empty cells filled as fill says
Filled(board, fill) ==
    [i \in Rows |-> [j \in Rows |->
        IF board[i][j] = 0 THEN fill[<<i - 1, j - 1>>] ELSE board[i][j]]]

\* The completions of a board: the ways to give every empty cell a digit so
\* that each row, column and box holds every digit.
Completions(board) ==
    {fill \in [Empties(board) -> Digits] :
        \A unit \in Units : Values(Filled(board, fill), unit) = Digits}

\* C21: on a board whose filled cells are free of conflicts
\* _count_solutions(board, limit) returns the number of completions when
\* that is below limit and at least limit otherwise; with limit = 2 it
\* returns 1 exactly when there is one completion; the board holds the same
\* cells when the call returns as when it was made.
CountExact ==
    probe.pc = "counted" =>
        LET completions == Cardinality(Completions(probe.board))
        IN  /\ find_conflicts(probe.board) = {}
            /\ completions < probe.limit => probe.count = completions
            /\ completions >= probe.limit => probe.count >= probe.limit
            /\ probe.limit = 2 => (probe.count = 1 <=> completions = 1)
            /\ probe.after = probe.board

\* C21 witness: a call with limit 3 on a board with four empty cells has
\* returned 2, the number of its completions.
CountBelowLimitSeen ==
    /\ probe.pc = "counted"
    /\ probe.limit = 3
    /\ probe.count = 2
    /\ Cardinality(Empties(probe.board)) = 4

-----------------------------------------------------------------------------
(* Properties of _is_valid *)

\* C14: _is_valid(board, r, c, n) = _is_valid(transpose(board), c, r, n),
\* for the calls made and for every row, column and digit on every board
\* reached.
TransposeSymmetric ==
    /\ probe.pc = "asked" => probe.valid = probe.mirrored
    /\ probe.pc = "called" =>
           \A r \in Idx, c \in Idx, n \in Digits :
               _is_valid(probe.board, r, c, n)
                   = _is_valid(Transpose(probe.board), c, r, n)

\* C14 witness: on the board with a single 1, at (0,5), _is_valid refused 1
\* at (5,5), which shares only the column with it; the transpose has the 1
\* at (5,0) and the call there was for (5,5), which shares only the row.
ColumnRefusalSeen ==
    /\ probe.pc = "asked"
    /\ probe.board = OnesAt({<<0, 5>>})
    /\ probe.row = 5 /\ probe.col = 5 /\ probe.num = 1
    /\ ~probe.valid
    /\ ~probe.mirrored

=============================================================================
